---------------------------- MODULE Spec2Model ----------------------------
(***************************************************************************)
(* Model of actions/hdl_example/sw/snap_example_qnvme.c: the NVMe read     *)
(* burst (nvme_read_test), the buffer helpers (memset_ad, memcmp2) and the *)
(* session in main().  The two hardware windows (the copy action and the   *)
(* NVMe host) are not software: they are modelled as an environment.       *)
(*                                                                         *)
(* 64-bit and 32-bit C integers are kept as tuples of 16-bit limbs, least  *)
(* significant first, so that truncation and wrap-around are computed and  *)
(* never assumed away.                                                     *)
(***************************************************************************)
EXTENDS Integers, Sequences, FiniteSets, TLC

\* ------------------------------------------------------------------------
\* Bounds of the model
\* ------------------------------------------------------------------------
\* Depth of the simulated NVMe submission queue.
QueueDepth == 2
\* Largest nmax the burst is called with when it is checked on its own.
MaxCmds == 4
\* Largest number of 8-byte words handed to memcmp2 when checked on its own.
MaxCmpWords == 12
\* nmax of a burst long enough for the 32-bit data pointer to wrap.
LongCmds == 130

\* ------------------------------------------------------------------------
\* Program constants
\* ------------------------------------------------------------------------
NVME_LB_SIZE == 512
SessionCmds == 10
ReportCap == 10
DPTR_HIGH_VAL == 2
ActionId == 239
SUB_Q_FULL_SSD0_IO == 2
SUB_Q_FULL_SSD1_IO == 8
CMD_QUEUE_ID_SSD0_IOQ == 16
CMD_QUEUE_ID_SSD1_IOQ == 48
CMD_ACTION_ID(aid) == aid * 256

\* ------------------------------------------------------------------------
\* Fixed-width integers as 16-bit limbs
\* ------------------------------------------------------------------------
LimbBase == 256 * 256

\* A value below 2^31 as a 64-bit quantity.
ToU64(k) == <<k % LimbBase, (k \div LimbBase) % LimbBase, 0, 0>>

\* a + k modulo 2^64, for a 64-bit a and 0 <= k < 2^31.
Add64(a, k) ==
    LET s1 == a[1] + (k % LimbBase)
        s2 == a[2] + (k \div LimbBase) + (s1 \div LimbBase)
        s3 == a[3] + (s2 \div LimbBase)
        s4 == a[4] + (s3 \div LimbBase)
    IN  <<s1 % LimbBase, s2 % LimbBase, s3 % LimbBase, s4 % LimbBase>>

\* Unsigned a > b for limb tuples of the same length.
RECURSIVE GreaterFrom(_, _, _)
GreaterFrom(a, b, i) ==
    IF i = 0 THEN FALSE
    ELSE IF a[i] # b[i] THEN a[i] > b[i]
    ELSE GreaterFrom(a, b, i - 1)

GreaterU(a, b) == GreaterFrom(a, b, Len(a))

\* The conversion of a 64-bit value to a 32-bit type keeps the low 32 bits.
TruncU32(a) == <<a[1], a[2]>>

\* The number a 32-bit limb pair stands for (used only below 2^31).
U32Val(x) == x[1] + LimbBase * x[2]

\* Bitwise and of two small naturals.
RECURSIVE BitAnd(_, _)
BitAnd(a, b) ==
    IF a = 0 \/ b = 0 THEN 0
    ELSE (a % 2) * (b % 2) + 2 * BitAnd(a \div 2, b \div 2)

\* ------------------------------------------------------------------------
\* memset_ad and memcmp2
\* ------------------------------------------------------------------------
\* (variant: the complement is taken but not shifted into the upper half)
PatternWord_unshifted(pattern) ==
    <<pattern[1], pattern[2], (LimbBase - 1) - pattern[3], (LimbBase - 1) - pattern[4]>>

\* The word memset_ad stores for the running pattern value.
PatternWord(pattern) ==
    <<pattern[1], pattern[2], (LimbBase - 1) - pattern[1], (LimbBase - 1) - pattern[2]>>

RECURSIVE memset_loop(_, _, _, _)
memset_loop(buf, pattern, size, i) ==
    IF i < size
    THEN memset_loop(Append(buf, PatternWord(pattern)), Add64(pattern, 8), size, i + 8)
    ELSE buf

\* The buffer memset_ad leaves behind, as a sequence of 8-byte words.
memset_ad(pattern, size) == memset_loop(<<>>, pattern, size, 0)

\* rc after a mismatch has been counted is past the reporting cap.
CapReached(rc) == rc > ReportCap

\* The value of rc when the loop of memcmp2 runs to its end.
LoopEndRc(rc) == 0

\* The loop of memcmp2: i is the byte index, rc the mismatches counted so
\* far, logged the mismatches printed, scanned the words read.
RECURSIVE memcmp2_loop(_, _, _, _, _, _)
memcmp2_loop(dest, src, size, i, rc, logged) ==
    IF i < size
    THEN LET w == (i \div 8) + 1
         IN  IF dest[w] # src[w]
             THEN IF CapReached(rc + 1)
                  THEN [rc |-> rc + 1, logged |-> logged + 1, scanned |-> w]
                  ELSE memcmp2_loop(dest, src, size, i + 8, rc + 1, logged + 1)
             ELSE memcmp2_loop(dest, src, size, i + 8, rc, logged)
    ELSE [rc |-> LoopEndRc(rc), logged |-> logged, scanned |-> i \div 8]

memcmp2(dest, src, size) == memcmp2_loop(dest, src, size, 0, 0, 0)

\* The number of words in which two buffers of size bytes differ.
Mismatches(dest, src, size) ==
    Cardinality({w \in 1..(size \div 8) : dest[w] # src[w]})


\* ------------------------------------------------------------------------
\* State
\* ------------------------------------------------------------------------
VARIABLES
    \* main(): position, the values strtol/strtoll returned for the options,
    \* and the locals of main
    pc, opt, drive, blocks, nvme_offset, mem_size, rc,
    slave_h, master_h, src_buf, dest_buf, action_h,
    exited, exitCode,
    \* contents of the two host buffers
    hostMem,
    \* nvme_read_test(): parameter nmax, locals, and where it returns to
    nmax, n, qin, val32, dptr_low, lba_low, ssd_ioq_full, cmd_reg, ret,
    \* NVMe host window: how register reads behave, the write registers, the
    \* outstanding commands per queue, completions since the last TRACK read
    regMode, nvmeReg, hwQueue, hwDone, hwOverrun,
    \* copy action window and card memory
    actReg, actBusy, ramLog, fillKind,
    \* history: writes per NVMe register (and, under TRACK_REG, the TRACK reads
    \* of the main loop), the last STATUS value read since
    \* the last submission, acquisitions and releases per resource, the
    \* phases that have finished, and which copy (1 or 2, 0 for none) timed out
    wr, lastStatus, acq, rel, done, timedOut,
    \* memcmp2 on its own: inputs, position, result
    cmpDest, cmpSrc, cmpSize, cmpPc, cmpOut

mainVars == <<pc, opt, drive, blocks, nvme_offset, mem_size, rc,
              slave_h, master_h, src_buf, dest_buf, action_h,
              exited, exitCode, hostMem, acq, rel, done, timedOut>>
rtVars == <<nmax, n, qin, val32, dptr_low, lba_low, ssd_ioq_full, cmd_reg, ret>>
nvmeVars == <<regMode, nvmeReg, hwQueue, hwDone, hwOverrun, wr, lastStatus>>
copyVars == <<actReg, actBusy, ramLog, fillKind>>
cmpVars == <<cmpDest, cmpSrc, cmpSize, cmpPc, cmpOut>>
vars == <<mainVars, rtVars, nvmeVars, copyVars, cmpVars>>

\* ------------------------------------------------------------------------
\* NVMe host window (environment)
\* ------------------------------------------------------------------------
NvmeWriteRegs == {"DPTR_LOW", "DPTR_HIGH", "LBA_LOW", "LBA_HIGH", "LBA_NUM", "COMMAND_REG"}
QueueIds == 0..3

\* The I/O queue of a drive: queue 1 for drive 0, queue 3 for drive 1.
IoQueueOf(d) == IF d = 1 THEN 3 ELSE 1
\* The STATUS bit of a queue.
FullBitOf(q) == IF q = 0 THEN 1 ELSE IF q = 1 THEN 2 ELSE IF q = 2 THEN 4 ELSE 8
\* Bits [5:4] of a command word.
QueueOfCommand(cmd) == (cmd \div 16) % 4

\* The values a STATUS read may return.  With simulated hardware the bit of
\* a queue is set when QueueDepth commands are outstanding in it, the bit of
\* the drive's I/O queue is set only then, and the bits of the queues this
\* program does not use are left open.
StatusValues ==
    IF regMode = "sim"
    THEN {v \in 0..15 :
            \A q \in QueueIds :
                /\ Len(hwQueue[q]) = QueueDepth => BitAnd(v, FullBitOf(q)) # 0
                /\ (q = IoQueueOf(drive) /\ Len(hwQueue[q]) < QueueDepth)
                       => BitAnd(v, FullBitOf(q)) = 0}
    ELSE IF regMode = "free" THEN {0}
    ELSE 0..15

\* The values a TRACK read may return: with simulated hardware the number of
\* commands completed since the previous TRACK read.
TrackValues == IF regMode = "sim" THEN {hwDone} ELSE IF regMode = "free" THEN 0..1 ELSE 0..2

\* A write to a register of the NVMe window.  With simulated hardware, writing
\* COMMAND_REG submits the command described by the registers to the queue
\* named in the command word; a command submitted to a full queue is lost.
NvmeWrite(reg, v) ==
    /\ nvmeReg' = [nvmeReg EXCEPT ![reg] = v]
    /\ wr' = [wr EXCEPT ![reg] = @ + 1]
    /\ IF reg = "COMMAND_REG" /\ regMode = "sim"
       THEN LET q == QueueOfCommand(v)
                c == [dptr_high |-> nvmeReg["DPTR_HIGH"], dptr_low |-> nvmeReg["DPTR_LOW"],
                      lba_low |-> nvmeReg["LBA_LOW"], num |-> nvmeReg["LBA_NUM"]]
            IN  IF Len(hwQueue[q]) < QueueDepth
                THEN /\ hwQueue' = [hwQueue EXCEPT ![q] = Append(@, c)]
                     /\ UNCHANGED hwOverrun
                ELSE /\ hwOverrun' = TRUE
                     /\ UNCHANGED hwQueue
       ELSE UNCHANGED <<hwQueue, hwOverrun>>

\* The oldest command of a queue completes: its blocks are written to card
\* memory at its data pointer.
HwComplete ==
    /\ \E q \in QueueIds :
        /\ hwQueue[q] # <<>>
        /\ hwQueue' = [hwQueue EXCEPT ![q] = Tail(@)]
        /\ ramLog' = Append(ramLog, [kind |-> "nvme", hi |-> Head(hwQueue[q]).dptr_high,
                                     lo |-> Head(hwQueue[q]).dptr_low,
                                     lba |-> Head(hwQueue[q]).lba_low,
                                     len |-> Head(hwQueue[q]).num * NVME_LB_SIZE,
                                     data |-> <<>>])
    /\ hwDone' = hwDone + 1
    /\ UNCHANGED <<mainVars, rtVars, cmpVars, regMode, nvmeReg, hwOverrun, wr, lastStatus,
                   actReg, actBusy, fillKind>>

\* ------------------------------------------------------------------------
\* nvme_read_test
\* ------------------------------------------------------------------------

\* (variant: the carry from the low half into the high half is lost)
Add32_nocarry(a, k) ==
    <<(a[1] + (k % LimbBase)) % LimbBase, (a[2] + (k \div LimbBase)) % LimbBase>>

\* a + k modulo 2^32, for a 32-bit a and 0 <= k < 2^31.
Add32(a, k) == TruncU32(Add64(<<a[1], a[2], 0, 0>>, k))

\* ssd_ioq_full and cmd_reg as chosen at the top of nvme_read_test.
IoqFullMask(d) == IF 1 = d THEN SUB_Q_FULL_SSD1_IO ELSE SUB_Q_FULL_SSD0_IO
\* (variant: the command always names the I/O queue of drive 0)
CommandWord_ssd0(d) == CMD_QUEUE_ID_SSD0_IOQ + CMD_ACTION_ID(ActionId)

CommandWord(d) ==
    (IF 1 = d THEN CMD_QUEUE_ID_SSD1_IOQ ELSE CMD_QUEUE_ID_SSD0_IOQ) + CMD_ACTION_ID(ActionId)

\* (variant: the bit of drive 0 is tested whatever the drive)
QueueFull_drive0(mask, val) == 0 # BitAnd(SUB_Q_FULL_SSD0_IO, val)
\* (variant: qin is lowered at every TRACK read)
TrackDecrement_always(q, val) == q - 1
\* (variant: qin is lowered by the value read)
TrackDecrement_by_value(q, val) == q - val
\* (variant: the loops run one time too many, or stop one short)
LoopCond_inclusive(i, max) == i <= max
DrainCond_early(q) == q > 1

\* The test that keeps the backpressure loop waiting.
QueueFull(mask, val) == 0 # BitAnd(mask, val)
\* qin after a TRACK read.
TrackDecrement(q, val) == IF val > 0 THEN q - 1 ELSE q
\* The conditions of the for loop and of the drain loop.
LoopCond(i, max) == i < max
DrainCond(q) == q # 0

\* Lines 285-301: locals, the three per-run registers, qin = 0, n = 0.
ReadTestEntry ==
    /\ pc = "rt_entry"
    /\ dptr_low' = <<0, 0>>
    /\ lba_low' = <<0, 0>>
    /\ ssd_ioq_full' = IoqFullMask(drive)
    /\ cmd_reg' = CommandWord(drive)
    /\ nvmeReg' = [nvmeReg EXCEPT !["DPTR_HIGH"] = DPTR_HIGH_VAL, !["LBA_HIGH"] = 0,
                                  !["LBA_NUM"] = blocks]
    /\ wr' = [wr EXCEPT !["DPTR_HIGH"] = @ + 1, !["LBA_HIGH"] = @ + 1, !["LBA_NUM"] = @ + 1]
    /\ qin' = 0
    /\ n' = 0
    /\ pc' = "rt_for"
    /\ UNCHANGED <<timedOut, opt, drive, blocks, nvme_offset, mem_size, rc, slave_h, master_h,
                   src_buf, dest_buf, action_h, exited, exitCode, hostMem, acq, rel, done,
                   nmax, val32, ret, regMode, hwQueue, hwDone, hwOverrun, lastStatus,
                   copyVars, cmpVars>>

\* (variant: the per-run registers are written again at every loop test)
ForTest_resetup ==
    /\ pc = "rt_for"
    /\ pc' = IF n < nmax THEN "rt_status" ELSE "rt_drain"
    /\ nvmeReg' = [nvmeReg EXCEPT !["DPTR_HIGH"] = DPTR_HIGH_VAL, !["LBA_HIGH"] = 0,
                                  !["LBA_NUM"] = blocks]
    /\ wr' = [wr EXCEPT !["DPTR_HIGH"] = @ + 1, !["LBA_HIGH"] = @ + 1, !["LBA_NUM"] = @ + 1]
    /\ UNCHANGED <<timedOut, opt, drive, blocks, nvme_offset, mem_size, rc, slave_h, master_h,
                   src_buf, dest_buf, action_h, exited, exitCode, hostMem, acq, rel, done,
                   rtVars, regMode, hwQueue, hwDone, hwOverrun, lastStatus, copyVars, cmpVars>>

\* Line 302: the loop test.
ForTest ==
    /\ pc = "rt_for"
    /\ pc' = IF LoopCond(n, nmax) THEN "rt_status" ELSE "rt_drain"
    /\ UNCHANGED <<timedOut, opt, drive, blocks, nvme_offset, mem_size, rc, slave_h, master_h,
                   src_buf, dest_buf, action_h, exited, exitCode, hostMem, acq, rel, done,
                   rtVars, nvmeVars, copyVars, cmpVars>>

\* Lines 303-308: one STATUS read of the backpressure wait.
ReadStatus ==
    /\ pc = "rt_status"
    /\ \E v \in StatusValues :
        /\ val32' = v
        /\ lastStatus' = v
        /\ pc' = IF QueueFull(ssd_ioq_full, v) THEN "rt_status" ELSE "rt_track"
    /\ UNCHANGED <<timedOut, opt, drive, blocks, nvme_offset, mem_size, rc, slave_h, master_h,
                   src_buf, dest_buf, action_h, exited, exitCode, hostMem, acq, rel, done,
                   nmax, n, qin, dptr_low, lba_low, ssd_ioq_full, cmd_reg, ret,
                   regMode, nvmeReg, hwQueue, hwDone, hwOverrun, wr, copyVars, cmpVars>>

\* Lines 309-313: the TRACK read of the iteration.
ReadTrack ==
    /\ pc = "rt_track"
    /\ \E v \in TrackValues :
        /\ val32' = v
        /\ qin' = TrackDecrement(qin, v)
    /\ hwDone' = 0
    /\ wr' = [wr EXCEPT !["TRACK_REG"] = @ + 1]
    /\ pc' = "rt_dptr"
    /\ UNCHANGED <<timedOut, opt, drive, blocks, nvme_offset, mem_size, rc, slave_h, master_h,
                   src_buf, dest_buf, action_h, exited, exitCode, hostMem, acq, rel, done,
                   nmax, n, dptr_low, lba_low, ssd_ioq_full, cmd_reg, ret,
                   regMode, nvmeReg, hwQueue, hwOverrun, lastStatus, copyVars, cmpVars>>

\* (variant: the DPTR_LOW write is missing from the submission)
WriteDptr_omitted ==
    /\ pc = "rt_dptr"
    /\ pc' = "rt_lba"
    /\ UNCHANGED <<timedOut, opt, drive, blocks, nvme_offset, mem_size, rc, slave_h, master_h,
                   src_buf, dest_buf, action_h, exited, exitCode, hostMem, acq, rel, done,
                   rtVars, nvmeVars, copyVars, cmpVars>>

\* Line 314.
WriteDptr ==
    /\ pc = "rt_dptr"
    /\ NvmeWrite("DPTR_LOW", dptr_low)
    /\ pc' = "rt_lba"
    /\ UNCHANGED <<timedOut, opt, drive, blocks, nvme_offset, mem_size, rc, slave_h, master_h,
                   src_buf, dest_buf, action_h, exited, exitCode, hostMem, acq, rel, done,
                   rtVars, regMode, hwDone, lastStatus, copyVars, cmpVars>>

\* Line 315.
WriteLba ==
    /\ pc = "rt_lba"
    /\ NvmeWrite("LBA_LOW", lba_low)
    /\ pc' = "rt_cmd"
    /\ UNCHANGED <<timedOut, opt, drive, blocks, nvme_offset, mem_size, rc, slave_h, master_h,
                   src_buf, dest_buf, action_h, exited, exitCode, hostMem, acq, rel, done,
                   rtVars, regMode, hwDone, lastStatus, copyVars, cmpVars>>

\* Line 316.
WriteCommand ==
    /\ pc = "rt_cmd"
    /\ NvmeWrite("COMMAND_REG", cmd_reg)
    /\ pc' = "rt_adv"
    /\ UNCHANGED <<timedOut, opt, drive, blocks, nvme_offset, mem_size, rc, slave_h, master_h,
                   src_buf, dest_buf, action_h, exited, exitCode, hostMem, acq, rel, done,
                   rtVars, regMode, hwDone, lastStatus, copyVars, cmpVars>>

\* Lines 317-320: qin++, the next addresses, n++.
Advance ==
    /\ pc = "rt_adv"
    /\ qin' = qin + 1
    /\ lba_low' = Add32(lba_low, blocks)
    /\ dptr_low' = Add32(dptr_low, 512 * blocks)
    /\ n' = n + 1
    /\ lastStatus' = -1
    /\ pc' = "rt_for"
    /\ UNCHANGED <<timedOut, opt, drive, blocks, nvme_offset, mem_size, rc, slave_h, master_h,
                   src_buf, dest_buf, action_h, exited, exitCode, hostMem, acq, rel, done,
                   nmax, val32, ssd_ioq_full, cmd_reg, ret,
                   regMode, nvmeReg, hwQueue, hwDone, hwOverrun, wr, copyVars, cmpVars>>

\* Lines 322-327: one TRACK read of the drain loop.
DrainPoll ==
    /\ pc = "rt_drain"
    /\ DrainCond(qin)
    /\ \E v \in TrackValues :
        /\ val32' = v
        /\ qin' = TrackDecrement(qin, v)
    /\ hwDone' = 0
    /\ UNCHANGED <<timedOut, pc, opt, drive, blocks, nvme_offset, mem_size, rc, slave_h, master_h,
                   src_buf, dest_buf, action_h, exited, exitCode, hostMem, acq, rel, done,
                   nmax, n, dptr_low, lba_low, ssd_ioq_full, cmd_reg, ret,
                   regMode, nvmeReg, hwQueue, hwOverrun, wr, lastStatus, copyVars, cmpVars>>

\* Line 328: the drain loop is left and nvme_read_test returns.
ReadTestReturn ==
    /\ pc = "rt_drain"
    /\ ~DrainCond(qin)
    /\ pc' = ret
    /\ done' = [done EXCEPT !["burst"] = TRUE]
    /\ UNCHANGED <<timedOut, opt, drive, blocks, nvme_offset, mem_size, rc, slave_h, master_h,
                   src_buf, dest_buf, action_h, exited, exitCode, hostMem, acq, rel,
                   rtVars, nvmeVars, copyVars, cmpVars>>

ReadTestStep ==
    \/ ReadTestEntry
    \/ ForTest
    \/ ReadStatus
    \/ ReadTrack
    \/ WriteDptr
    \/ WriteLba
    \/ WriteCommand
    \/ Advance
    \/ DrainPoll
    \/ ReadTestReturn

\* ------------------------------------------------------------------------
\* Initial states
\* ------------------------------------------------------------------------
Resources == {"slave", "master", "src", "dest", "action"}
Phases == {"copy1", "burst", "copy2", "verify"}

MainIdle ==
    /\ opt = [card |-> ToU64(0), drive |-> ToU64(0), blocks |-> ToU64(1), offset |-> ToU64(0)]
    /\ nvme_offset = ToU64(0)
    /\ mem_size = 0
    /\ rc = 1
    /\ slave_h = 0 /\ master_h = 0 /\ src_buf = 0 /\ dest_buf = 0 /\ action_h = 0
    /\ exited = FALSE /\ exitCode = 0
    /\ hostMem = [b \in {"src", "dest"} |-> <<>>]
    /\ acq = [r \in Resources |-> 0]
    /\ rel = [r \in Resources |-> 0]
    /\ done = [p \in Phases |-> FALSE]
    /\ timedOut = 0

ReadTestIdle ==
    /\ n = 0 /\ qin = 0 /\ val32 = 0
    /\ dptr_low = <<0, 0>> /\ lba_low = <<0, 0>>
    /\ ssd_ioq_full = 0 /\ cmd_reg = 0

NvmeReset ==
    /\ nvmeReg = [r \in NvmeWriteRegs |-> IF r \in {"DPTR_LOW", "LBA_LOW"} THEN <<0, 0>> ELSE 0]
    /\ hwQueue = [q \in QueueIds |-> <<>>]
    /\ hwDone = 0
    /\ hwOverrun = FALSE
    /\ wr = [r \in NvmeWriteRegs \cup {"TRACK_REG"} |-> 0]
    /\ lastStatus = -1

CopyReset ==
    /\ actReg = [CONFIG |-> "NONE", DEST_LOW |-> <<0, 0>>, DEST_HIGH |-> <<0, 0>>,
                 SRC_LOW |-> <<0, 0>>, SRC_HIGH |-> <<0, 0>>, CNT |-> 0]
    /\ actBusy = FALSE
    /\ ramLog = <<>>

CmpIdle ==
    /\ cmpDest = <<>> /\ cmpSrc = <<>> /\ cmpSize = 0 /\ cmpPc = "idle"
    /\ cmpOut = [rc |-> 0, logged |-> 0, scanned |-> 0]

\* nvme_read_test called on its own, against simulated hardware.
InitBurst ==
    /\ MainIdle /\ ReadTestIdle /\ NvmeReset /\ CopyReset /\ CmpIdle
    /\ pc = "rt_entry"
    /\ ret = "returned"
    /\ drive \in {0, 1}
    /\ blocks \in {1, 2}
    /\ nmax \in 0..MaxCmds
    /\ regMode = "sim"
    /\ fillKind = "zero"

NextBurst == ReadTestStep \/ HwComplete

SpecBurst == InitBurst /\ [][NextBurst]_vars

\* nvme_read_test called on its own, the register reads returning any value
\* (no hardware is simulated behind the registers).
InitRegs ==
    /\ MainIdle /\ ReadTestIdle /\ NvmeReset /\ CopyReset /\ CmpIdle
    /\ pc = "rt_entry"
    /\ ret = "returned"
    /\ drive \in {0, 1}
    /\ blocks \in {1, 2}
    /\ nmax \in (0..MaxCmds) \cup {SessionCmds}
    /\ regMode = "any"
    /\ fillKind = "zero"

NextRegs == ReadTestStep

SpecRegs == InitRegs /\ [][NextRegs]_vars

\* nvme_read_test called on its own for a long burst, with the smallest and
\* the largest block count main accepts; the queue is never reported full
\* and TRACK reads 0 or 1.
InitLong ==
    /\ MainIdle /\ ReadTestIdle /\ NvmeReset /\ CopyReset /\ CmpIdle
    /\ pc = "rt_entry"
    /\ ret = "returned"
    /\ drive \in {0, 1}
    /\ blocks \in {1, 256 * 256}
    /\ nmax = LongCmds
    /\ regMode = "free"
    /\ fillKind = "zero"

NextLong == ReadTestStep

SpecLong == InitLong /\ [][NextLong]_vars


\* ------------------------------------------------------------------------
\* Host memory, card memory and the copy action (environment)
\* ------------------------------------------------------------------------
\* The addresses posix_memalign returns for the two buffers (4096-aligned).
SrcBufAddr == <<0, 4096, 32512, 0>>
DestBufAddr == <<0, 8192, 32512, 0>>

\* What a word of card memory, of the drive, or of fresh host memory holds
\* before anything is written to it: zero, or a pattern of its byte offset.
FillWord(byteOff) == IF fillKind = "zero" THEN <<0, 0, 0, 0>> ELSE PatternWord(ToU64(byteOff))

\* addr - base when addr lies in the len bytes at base, otherwise -1.
OffsetIn(addr, base, len) ==
    IF addr[3] = base[3] /\ addr[4] = base[4]
       /\ U32Val(TruncU32(addr)) >= U32Val(TruncU32(base))
       /\ U32Val(TruncU32(addr)) - U32Val(TruncU32(base)) < len
    THEN U32Val(TruncU32(addr)) - U32Val(TruncU32(base))
    ELSE -1

\* The word of card memory at addr: what the latest write covering it left.
RECURSIVE RamWordFrom(_, _, _)
RamWordFrom(log, i, addr) ==
    IF i = 0 THEN FillWord(U32Val(TruncU32(addr)))
    ELSE LET w == log[i]
             off == OffsetIn(addr, <<w.lo[1], w.lo[2], w.hi, 0>>, w.len)
         IN  IF off < 0 THEN RamWordFrom(log, i - 1, addr)
             ELSE IF w.kind = "copy" THEN w.data[(off \div 8) + 1]
             ELSE FillWord(U32Val(w.lba) * NVME_LB_SIZE + off)

RamRead(addr, len) == [k \in 1..(len \div 8) |-> RamWordFrom(ramLog, Len(ramLog), Add64(addr, 8 * (k - 1)))]

HostRead(addr, len) ==
    IF addr = SrcBufAddr THEN SubSeq(hostMem["src"], 1, len \div 8)
    ELSE IF addr = DestBufAddr THEN SubSeq(hostMem["dest"], 1, len \div 8)
    ELSE [k \in 1..(len \div 8) |-> FillWord(8 * (k - 1))]

\* The copy action runs the transfer its registers describe, completely.
CopyEngineRun ==
    LET dest == <<actReg["DEST_LOW"][1], actReg["DEST_LOW"][2],
                  actReg["DEST_HIGH"][1], actReg["DEST_HIGH"][2]>>
        src == <<actReg["SRC_LOW"][1], actReg["SRC_LOW"][2],
                 actReg["SRC_HIGH"][1], actReg["SRC_HIGH"][2]>>
        cnt == actReg["CNT"]
    IN  IF actReg["CONFIG"] = "COPY_HD"
        THEN /\ ramLog' = Append(ramLog, [kind |-> "copy", hi |-> dest[3], lo |-> TruncU32(dest),
                                          lba |-> <<0, 0>>, len |-> cnt,
                                          data |-> HostRead(src, cnt)])
             /\ UNCHANGED hostMem
        ELSE /\ hostMem' = [b \in {"src", "dest"} |->
                              IF (b = "src" /\ dest = SrcBufAddr) \/ (b = "dest" /\ dest = DestBufAddr)
                              THEN RamRead(src, cnt) ELSE hostMem[b]]
             /\ UNCHANGED ramLog

\* ------------------------------------------------------------------------
\* main
\* ------------------------------------------------------------------------
NVME_DRIVE_SIZE == <<0, 0, 1, 0>>
max_blocks == ToU64(65536)

\* Lines 411-412: drive = strtol(...) as an int, and its test.
DriveRejected(v) == TruncU32(v) # <<0, 0>> /\ TruncU32(v) # <<1, 0>>
\* Lines 418-423: blocks = strtoll(...) as a uint32_t, and its tests.
BlocksRejected(v) ==
    \/ TruncU32(v) = <<0, 0>>
    \/ GreaterU(<<v[1], v[2], 0, 0>>, max_blocks)
\* Lines 430-435: nvme_offset = strtoll(...) as a uint64_t, and its tests.
OffsetRejected(v) ==
    \/ 0 # v[1] % 512
    \/ GreaterU(v, NVME_DRIVE_SIZE)
\* Line 451.
SizeRejected(off, size) == GreaterU(Add64(off, size), NVME_DRIVE_SIZE)
\* Line 455: card_no = strtol(...) as an int, compared with 3.
CardRejected(v) == v[2] < 32768 /\ (v[2] > 0 \/ v[1] > 3)

\* (variants: the result of the wait is ignored; a timeout leaves by __exit;
\* buffers and handles are released without the NULL test)
AfterWait_ignored(r, next) == next
AfterWait_noDetach(r, next) == IF r # 0 THEN "exit" ELSE next
Releases_always(p) == TRUE

\* Where main goes after action_wait_idle returned r, when going on leads to next.
AfterWait(r, next) == IF r # 0 THEN "exit1" ELSE next
\* free_mem and card_free release what they are given unless it is NULL.
Releases(p) == p # 0

\* exit(status): the process ends at once, nothing is released by main.
ExitNow(status) ==
    /\ exited' = TRUE
    /\ exitCode' = status
    /\ pc' = "halt"

\* Lines 374-448: the option loop.
ParseOptions ==
    /\ pc = "parse"
    /\ IF DriveRejected(opt.drive) \/ BlocksRejected(opt.blocks) \/ OffsetRejected(opt.offset)
       THEN /\ ExitNow(1)
            /\ UNCHANGED <<drive, blocks, nvme_offset>>
       ELSE /\ drive' = U32Val(TruncU32(opt.drive))
            /\ blocks' = U32Val(TruncU32(opt.blocks))
            /\ nvme_offset' = opt.offset
            /\ pc' = "check_size"
            /\ UNCHANGED <<exited, exitCode>>
    /\ UNCHANGED <<timedOut, opt, mem_size, rc, slave_h, master_h, src_buf, dest_buf, action_h,
                   hostMem, acq, rel, done, rtVars, nvmeVars, copyVars, cmpVars>>

\* Lines 450-458.
CheckSize ==
    /\ pc = "check_size"
    /\ mem_size' = blocks * NVME_LB_SIZE
    /\ IF SizeRejected(nvme_offset, blocks * NVME_LB_SIZE) \/ CardRejected(opt.card)
       THEN ExitNow(1)
       ELSE pc' = "open" /\ UNCHANGED <<exited, exitCode>>
    /\ UNCHANGED <<timedOut, opt, drive, blocks, nvme_offset, rc, slave_h, master_h, src_buf, dest_buf,
                   action_h, hostMem, acq, rel, done, rtVars, nvmeVars, copyVars, cmpVars>>

\* Lines 460-485: both card handles are opened; either may fail.
OpenCards ==
    /\ pc = "open"
    /\ \E s \in {0, 1}, m \in {0, 1} :
        /\ slave_h' = s
        /\ master_h' = m
        /\ acq' = [acq EXCEPT !["slave"] = @ + s, !["master"] = @ + m]
        /\ IF s = 0 \/ m = 0
           THEN rc' = -1 /\ pc' = "exit"
           ELSE rc' = rc /\ pc' = "alloc"
    /\ UNCHANGED <<timedOut, opt, drive, blocks, nvme_offset, mem_size, src_buf, dest_buf, action_h,
                   exited, exitCode, hostMem, rel, done, rtVars, nvmeVars, copyVars, cmpVars>>

\* Lines 487-510: the two buffers are allocated (either may fail) and the
\* source buffer is filled.
AllocBuffers ==
    /\ pc = "alloc"
    /\ \E s \in {0, 1}, d \in {0, 1} :
        /\ src_buf' = s
        /\ dest_buf' = d
        /\ acq' = [acq EXCEPT !["src"] = @ + s, !["dest"] = @ + d]
        /\ IF s = 0 \/ d = 0
           THEN /\ rc' = -1 /\ pc' = "exit"
                /\ UNCHANGED hostMem
           ELSE /\ rc' = rc /\ pc' = "attach"
                /\ hostMem' = [b \in {"src", "dest"} |->
                                 IF b = "src" THEN memset_ad(nvme_offset, mem_size)
                                 ELSE [k \in 1..(mem_size \div 8) |-> FillWord(8 * (k - 1))]]
    /\ UNCHANGED <<timedOut, opt, drive, blocks, nvme_offset, mem_size, slave_h, master_h, action_h,
                   exited, exitCode, rel, done, rtVars, nvmeVars, copyVars, cmpVars>>

\* Lines 512-517.
AttachAction ==
    /\ pc = "attach"
    /\ \E a \in {0, 1} :
        /\ action_h' = a
        /\ acq' = [acq EXCEPT !["action"] = @ + a]
        /\ pc' = IF a = 0 THEN "exit" ELSE "copy1_cfg"
    /\ UNCHANGED <<timedOut, opt, drive, blocks, nvme_offset, mem_size, rc, slave_h, master_h,
                   src_buf, dest_buf, exited, exitCode, hostMem, rel, done,
                   rtVars, nvmeVars, copyVars, cmpVars>>

\* action_memcpy: the six registers of one transfer.
ActionMemcpy(action, dest, src, cnt) ==
    actReg' = [CONFIG |-> action, DEST_LOW |-> TruncU32(dest), DEST_HIGH |-> <<dest[3], dest[4]>>,
               SRC_LOW |-> TruncU32(src), SRC_HIGH |-> <<src[3], src[4]>>, CNT |-> cnt]

\* action_wait_idle, line 201: the action is started.
ActionStart == actBusy' = TRUE

\* action_wait_idle, lines 204-212: the action either completes in time (the
\* transfer is done, 0 is returned) or the wait times out and 1 is returned,
\* the action left running.
ActionWaitIdle(r) ==
    \/ r = 0 /\ CopyEngineRun /\ actBusy' = FALSE
    \/ r = 1 /\ UNCHANGED <<ramLog, hostMem, actBusy>>

\* Lines 518-520.
Copy1Config ==
    /\ pc = "copy1_cfg"
    /\ ActionMemcpy("COPY_HD", ToU64(0), SrcBufAddr, mem_size)
    /\ pc' = "copy1_start"
    /\ UNCHANGED <<opt, drive, blocks, nvme_offset, mem_size, rc, slave_h, master_h,
                   src_buf, dest_buf, action_h, exited, exitCode, hostMem, acq, rel, done,
                   timedOut, rtVars, nvmeVars, actBusy, ramLog, fillKind, cmpVars>>

\* Line 521: action_wait_idle starts the action ...
Copy1Start ==
    /\ pc = "copy1_start"
    /\ ActionStart
    /\ pc' = "copy1_wait"
    /\ UNCHANGED <<opt, drive, blocks, nvme_offset, mem_size, rc, slave_h, master_h,
                   src_buf, dest_buf, action_h, exited, exitCode, hostMem, acq, rel, done,
                   timedOut, rtVars, nvmeVars, actReg, ramLog, fillKind, cmpVars>>

\* Lines 521-522: ... waits for it, and main leaves on a timeout.
Copy1Wait ==
    /\ pc = "copy1_wait"
    /\ \E r \in {0, 1} :
        /\ ActionWaitIdle(r)
        /\ rc' = r
        /\ pc' = AfterWait(r, "call_rt")
        /\ done' = [done EXCEPT !["copy1"] = (r = 0)]
        /\ timedOut' = IF r = 0 THEN timedOut ELSE 1
    /\ UNCHANGED <<opt, drive, blocks, nvme_offset, mem_size, slave_h, master_h,
                   src_buf, dest_buf, action_h, exited, exitCode, acq, rel,
                   rtVars, nvmeVars, actReg, fillKind, cmpVars>>

\* Line 524: nvme_read_test(master_h, drive, blocks, 10).
CallReadTest ==
    /\ pc = "call_rt"
    /\ nmax' = SessionCmds
    /\ ret' = "copy2_cfg"
    /\ pc' = "rt_entry"
    /\ UNCHANGED <<timedOut, opt, drive, blocks, nvme_offset, mem_size, rc, slave_h, master_h,
                   src_buf, dest_buf, action_h, exited, exitCode, hostMem, acq, rel, done,
                   n, qin, val32, dptr_low, lba_low, ssd_ioq_full, cmd_reg,
                   nvmeVars, copyVars, cmpVars>>

\* Lines 526-527.
Copy2Config ==
    /\ pc = "copy2_cfg"
    /\ ActionMemcpy("COPY_DH", DestBufAddr, ToU64(0 + mem_size), mem_size)
    /\ pc' = "copy2_start"
    /\ UNCHANGED <<opt, drive, blocks, nvme_offset, mem_size, rc, slave_h, master_h,
                   src_buf, dest_buf, action_h, exited, exitCode, hostMem, acq, rel, done,
                   timedOut, rtVars, nvmeVars, actBusy, ramLog, fillKind, cmpVars>>

\* Line 528: action_wait_idle starts the action ...
Copy2Start ==
    /\ pc = "copy2_start"
    /\ ActionStart
    /\ pc' = "copy2_wait"
    /\ UNCHANGED <<opt, drive, blocks, nvme_offset, mem_size, rc, slave_h, master_h,
                   src_buf, dest_buf, action_h, exited, exitCode, hostMem, acq, rel, done,
                   timedOut, rtVars, nvmeVars, actReg, ramLog, fillKind, cmpVars>>

\* Lines 528-529: ... waits for it, and main leaves on a timeout.
Copy2Wait ==
    /\ pc = "copy2_wait"
    /\ \E r \in {0, 1} :
        /\ ActionWaitIdle(r)
        /\ rc' = r
        /\ pc' = AfterWait(r, "verify")
        /\ done' = [done EXCEPT !["copy2"] = (r = 0)]
        /\ timedOut' = IF r = 0 THEN timedOut ELSE 2
    /\ UNCHANGED <<opt, drive, blocks, nvme_offset, mem_size, slave_h, master_h,
                   src_buf, dest_buf, action_h, exited, exitCode, acq, rel,
                   rtVars, nvmeVars, actReg, fillKind, cmpVars>>

\* Line 531.
Verify ==
    /\ pc = "verify"
    /\ rc' = memcmp2(hostMem["dest"], hostMem["src"], mem_size).rc
    /\ done' = [done EXCEPT !["verify"] = TRUE]
    /\ pc' = "exit1"
    /\ UNCHANGED <<timedOut, opt, drive, blocks, nvme_offset, mem_size, slave_h, master_h,
                   src_buf, dest_buf, action_h, exited, exitCode, hostMem, acq, rel,
                   rtVars, nvmeVars, copyVars, cmpVars>>

\* Lines 533-534: __exit1.
DetachAction ==
    /\ pc = "exit1"
    /\ rel' = [rel EXCEPT !["action"] = @ + 1]
    /\ pc' = "exit"
    /\ UNCHANGED <<timedOut, opt, drive, blocks, nvme_offset, mem_size, rc, slave_h, master_h,
                   src_buf, dest_buf, action_h, exited, exitCode, hostMem, acq, done,
                   rtVars, nvmeVars, copyVars, cmpVars>>

\* Lines 535-541: __exit, and the return of main.
Cleanup ==
    /\ pc = "exit"
    /\ rel' = [rel EXCEPT !["src"] = IF Releases(src_buf) THEN @ + 1 ELSE @,
                          !["dest"] = IF Releases(dest_buf) THEN @ + 1 ELSE @,
                          !["master"] = IF Releases(master_h) THEN @ + 1 ELSE @,
                          !["slave"] = IF Releases(slave_h) THEN @ + 1 ELSE @]
    /\ exited' = TRUE
    /\ exitCode' = rc % 256
    /\ pc' = "halt"
    /\ UNCHANGED <<timedOut, opt, drive, blocks, nvme_offset, mem_size, rc, slave_h, master_h,
                   src_buf, dest_buf, action_h, hostMem, acq, done,
                   rtVars, nvmeVars, copyVars, cmpVars>>

MainStep ==
    \/ ParseOptions
    \/ CheckSize
    \/ OpenCards
    \/ AllocBuffers
    \/ AttachAction
    \/ Copy1Config
    \/ Copy1Start
    \/ Copy1Wait
    \/ CallReadTest
    \/ Copy2Config
    \/ Copy2Start
    \/ Copy2Wait
    \/ Verify
    \/ DetachAction
    \/ Cleanup

\* The values the options are given: valid ones, ones beyond each limit, and
\* ones that do not fit the variable they are stored in.
ReqCards == {ToU64(0), ToU64(4)}
ReqDrives == {ToU64(0), ToU64(1), ToU64(2), <<0, 0, 1, 0>>}
ReqBlocks == {ToU64(0), ToU64(1), ToU64(65537), <<1, 0, 1, 0>>}
ReqOffsets == {ToU64(0), ToU64(512), ToU64(513), <<0, 0, 1, 0>>}

\* One run of the program against simulated hardware.
Init ==
    /\ opt \in [card : ReqCards, drive : ReqDrives, blocks : ReqBlocks, offset : ReqOffsets]
    /\ drive = 0 /\ blocks = 1
    /\ nvme_offset = ToU64(0)
    /\ mem_size = 0
    /\ rc = 1
    /\ slave_h = 0 /\ master_h = 0 /\ src_buf = 0 /\ dest_buf = 0 /\ action_h = 0
    /\ exited = FALSE /\ exitCode = 0
    /\ hostMem = [b \in {"src", "dest"} |-> <<>>]
    /\ acq = [r \in Resources |-> 0]
    /\ rel = [r \in Resources |-> 0]
    /\ done = [p \in Phases |-> FALSE]
    /\ timedOut = 0
    /\ ReadTestIdle /\ NvmeReset /\ CopyReset /\ CmpIdle
    /\ pc = "parse"
    /\ nmax = 0
    /\ ret = "returned"
    /\ regMode = "sim"
    /\ fillKind \in {"zero", "addr"}

Next == MainStep \/ ReadTestStep \/ HwComplete

Spec == Init /\ [][Next]_vars

\* ------------------------------------------------------------------------
\* memcmp2 on its own
\* ------------------------------------------------------------------------
\* A word that differs from w.
Corrupt(w) == <<(w[1] + 1) % LimbBase, w[2], w[3], w[4]>>

\* memcmp2 is applied to the two buffers.
CmpCall ==
    /\ cmpPc = "idle"
    /\ cmpOut' = memcmp2(cmpDest, cmpSrc, cmpSize)
    /\ cmpPc' = "done"
    /\ UNCHANGED <<mainVars, rtVars, nvmeVars, copyVars, cmpDest, cmpSrc, cmpSize>>

\* Lines 531-541: main returns the result as the exit status of the process.
CmpExit ==
    /\ cmpPc = "done"
    /\ rc' = cmpOut.rc
    /\ exited' = TRUE
    /\ exitCode' = cmpOut.rc % 256
    /\ cmpPc' = "exited"
    /\ UNCHANGED <<pc, opt, drive, blocks, nvme_offset, mem_size, slave_h, master_h,
                   src_buf, dest_buf, action_h, hostMem, acq, rel, done, timedOut,
                   rtVars, nvmeVars, copyVars, cmpDest, cmpSrc, cmpSize, cmpOut>>

\* The source buffer holds the pattern of a seed; the destination buffer is
\* the source buffer with any set of its words changed.
InitCmp ==
    /\ MainIdle /\ ReadTestIdle /\ NvmeReset /\ CopyReset
    /\ pc = "halt" /\ drive = 0 /\ blocks = 1 /\ nmax = 0 /\ ret = "returned"
    /\ regMode = "sim" /\ fillKind = "zero"
    /\ cmpPc = "idle"
    /\ cmpOut = [rc |-> 0, logged |-> 0, scanned |-> 0]
    /\ \E k \in 0..MaxCmpWords, seed \in {ToU64(4096)} :
        /\ cmpSize = 8 * k
        /\ cmpSrc = memset_ad(seed, 8 * k)
        /\ \E bad \in SUBSET (1..k) :
            cmpDest = [w \in 1..k |-> IF w \in bad THEN Corrupt(memset_ad(seed, 8 * k)[w])
                                      ELSE memset_ad(seed, 8 * k)[w]]

NextCmp == CmpCall \/ CmpExit

SpecCmp == InitCmp /\ [][NextCmp]_vars

\* ------------------------------------------------------------------------
\* memset_ad on its own, followed by memcmp2
\* ------------------------------------------------------------------------
\* Seeds: small ones, one whose low 32 bits wrap during the fill, one that
\* wraps at 2^64, and one with a carry out of the lowest limb only.
FillSeeds ==
    {ToU64(0), ToU64(4096), <<LimbBase - 8, LimbBase - 1, 0, 0>>,
     <<LimbBase - 16, LimbBase - 1, LimbBase - 1, LimbBase - 1>>, <<LimbBase - 24, 0, 7, 0>>}

\* Line 495 applied to a first buffer.
FillFirst ==
    /\ cmpPc = "fill1"
    /\ cmpSrc' = memset_ad(nvme_offset, cmpSize)
    /\ cmpPc' = "fill2"
    /\ UNCHANGED <<mainVars, rtVars, nvmeVars, copyVars, cmpDest, cmpSize, cmpOut>>

\* The same call applied to a second buffer.
FillSecond ==
    /\ cmpPc = "fill2"
    /\ cmpDest' = memset_ad(nvme_offset, cmpSize)
    /\ cmpPc' = "idle"
    /\ UNCHANGED <<mainVars, rtVars, nvmeVars, copyVars, cmpSrc, cmpSize, cmpOut>>

InitFill ==
    /\ ReadTestIdle /\ NvmeReset /\ CopyReset
    /\ opt = [card |-> ToU64(0), drive |-> ToU64(0), blocks |-> ToU64(1), offset |-> ToU64(0)]
    /\ mem_size = 0 /\ rc = 1
    /\ slave_h = 0 /\ master_h = 0 /\ src_buf = 0 /\ dest_buf = 0 /\ action_h = 0
    /\ exited = FALSE /\ exitCode = 0
    /\ hostMem = [b \in {"src", "dest"} |-> <<>>]
    /\ acq = [r \in Resources |-> 0]
    /\ rel = [r \in Resources |-> 0]
    /\ done = [p \in Phases |-> FALSE]
    /\ timedOut = 0
    /\ pc = "halt" /\ drive = 0 /\ blocks = 1 /\ nmax = 0 /\ ret = "returned"
    /\ regMode = "sim" /\ fillKind = "zero"
    /\ cmpPc = "fill1"
    /\ cmpDest = <<>> /\ cmpSrc = <<>>
    /\ cmpOut = [rc |-> 0, logged |-> 0, scanned |-> 0]
    /\ nvme_offset \in FillSeeds
    /\ cmpSize \in {8 * k : k \in 0..MaxCmpWords}

NextFill == FillFirst \/ FillSecond \/ CmpCall \/ CmpExit

SpecFill == InitFill /\ [][NextFill]_vars

\* ------------------------------------------------------------------------
\* Properties of nvme_read_test
\* ------------------------------------------------------------------------
SubmitRegs == {"DPTR_LOW", "LBA_LOW", "COMMAND_REG"}
IoqBitSet(v) == BitAnd(v, FullBitOf(IoQueueOf(drive))) # 0

\* C1: with a queue of depth QueueDepth whose full bit is set exactly when
\* QueueDepth commands are outstanding, qin never exceeds QueueDepth.
C1_QinWithinDepth == qin <= QueueDepth

\* C2: every write of DPTR_LOW, LBA_LOW or COMMAND_REG follows a STATUS read
\* of the same iteration in which the full bit of the drive's I/O queue was
\* clear, and a STATUS read that returns the bit set is followed by no write:
\* the loop stays in the backpressure wait.
C2_SubmitOnlyWhenClear ==
    [][ /\ (\E r \in SubmitRegs : wr'[r] # wr[r])
            => (lastStatus # -1 /\ ~IoqBitSet(lastStatus))
        /\ (pc = "rt_status" /\ hwQueue' = hwQueue /\ IoqBitSet(lastStatus'))
            => (pc' = "rt_status" /\ wr' = wr) ]_vars

\* C2 witness: after a first submission the loop is held in the wait by a
\* STATUS value with the bit set.
C2_Witness ==
    /\ pc = "rt_status" /\ wr["COMMAND_REG"] >= 1
    /\ lastStatus # -1 /\ IoqBitSet(lastStatus)

\* C3: when nvme_read_test has returned, qin is 0.
C3_DrainComplete == pc = "returned" => qin = 0

\* C3 witness: a burst of several commands has returned after a TRACK read
\* that reported a completion.
C3_Witness == pc = "returned" /\ nmax >= 2 /\ val32 > 0 /\ qin = 0

\* C4: a call that has returned has written COMMAND_REG exactly nmax times,
\* and no step of the drain phase writes a register.
C4_ExactlyNmaxSubmissions ==
    [][ /\ pc' = "returned" => wr'["COMMAND_REG"] = nmax'
        /\ pc = "rt_drain" => wr' = wr
        /\ wr'["COMMAND_REG"] <= nmax' ]_vars

\* C4 witness: the call made by the session (nmax = 10) has returned.
C4_Witness == pc = "returned" /\ nmax = SessionCmds /\ wr["COMMAND_REG"] = SessionCmds


\* ------------------------------------------------------------------------
\* Properties of memcmp2
\* ------------------------------------------------------------------------
CmpMismatches == Mismatches(cmpDest, cmpSrc, cmpSize)

\* C5: memcmp2 returns 0 exactly when the buffers agree in every word, and
\* otherwise the number of mismatching words, capped at 11; the process then
\* exits nonzero whenever the buffers differ.
C5_ReturnsMismatchCount ==
    /\ cmpPc # "idle" =>
         cmpOut.rc = IF CmpMismatches > ReportCap THEN ReportCap + 1 ELSE CmpMismatches
    /\ (cmpPc = "exited" /\ CmpMismatches > 0) => exitCode # 0

\* Every word of the two buffers differs (and there is at least one word).
AllWordsDiffer == cmpSize > 0 /\ CmpMismatches = cmpSize \div 8

\* C11: given two buffers that differ in every word, memcmp2 reports at most
\* ReportCap mismatches individually (exactly ReportCap once the buffer has
\* that many words), has read every word of the buffer when it returns, and
\* returns a nonzero value.
C11_MismatchCapping ==
    (cmpPc # "idle" /\ AllWordsDiffer) =>
        /\ cmpOut.logged = (IF cmpSize \div 8 > ReportCap THEN ReportCap ELSE cmpSize \div 8)
        /\ cmpOut.scanned = cmpSize \div 8
        /\ cmpOut.rc # 0

\* ((S + 8i) & 0xFFFFFFFF) | (~(S + 8i) << 32) modulo 2^64, computed from the
\* seed and the index with the carries written out.
ExpectedWordAt(S, i) ==
    LET lo == (S[1] + 8 * i) % LimbBase
        hi == (S[2] + ((S[1] + 8 * i) \div LimbBase)) % LimbBase
    IN  <<lo, hi, (LimbBase - 1) - lo, (LimbBase - 1) - hi>>

\* C12: memset_ad with seed S and size N writes word i as
\* ((S + 8i) & 0xFFFFFFFF) | (~(S + 8i) << 32); a second fill with the same
\* seed and size gives the same buffer; memcmp2 of the two reads every word,
\* logs nothing and returns 0.
C12_PatternDeterminism ==
    /\ cmpPc # "fill1" =>
          /\ Len(cmpSrc) = cmpSize \div 8
          /\ \A i \in 0..((cmpSize \div 8) - 1) : cmpSrc[i + 1] = ExpectedWordAt(nvme_offset, i)
    /\ cmpPc \notin {"fill1", "fill2"} => cmpDest = cmpSrc
    /\ cmpPc \in {"done", "exited"} =>
          /\ cmpOut.rc = 0 /\ cmpOut.logged = 0
          /\ cmpOut.scanned = cmpSize \div 8

\* Reached: the longest buffer, filled from the seed whose low half wraps,
\* has been filled twice and compared.
C12_Witness ==
    /\ cmpPc = "exited"
    /\ cmpSize = 8 * MaxCmpWords
    /\ nvme_offset = <<LimbBase - 8, LimbBase - 1, 0, 0>>
    /\ cmpSrc[2] = <<0, 0, LimbBase - 1, LimbBase - 1>>
    /\ cmpOut.scanned = MaxCmpWords

\* ------------------------------------------------------------------------
\* Properties of the session
\* ------------------------------------------------------------------------
RtPcs == {"rt_entry", "rt_for", "rt_status", "rt_track", "rt_dptr", "rt_lba", "rt_cmd",
          "rt_adv", "rt_drain"}
ExitPcs == {"exit1", "exit", "halt"}

\* C6: when both copies completed and every submitted read was executed, the
\* comparator reports 0 mismatches.
C6_RoundTrip == done["verify"] => rc = 0

\* C7: after a timeout of the first copy neither the burst, nor the second
\* copy, nor the comparator runs; after a timeout of the second copy the
\* comparator does not run; in both cases the process ends with the action
\* detached, the buffers and handles released once, and a nonzero result.
C7_TimeoutAbort ==
    /\ timedOut # 0 => pc \in ExitPcs
    /\ timedOut = 1 =>
         /\ \A r \in NvmeWriteRegs : wr[r] = 0
         /\ ~done["burst"] /\ ~done["copy2"] /\ ~done["verify"]
         /\ actReg["CONFIG"] = "COPY_HD"
    /\ timedOut = 2 => ~done["verify"]
    /\ (timedOut # 0 /\ pc = "halt") =>
         /\ \A r \in Resources : rel[r] = 1
         /\ exited /\ exitCode # 0

\* C7 witness: the run has ended after a timeout of the first copy.
C7_Witness == timedOut = 1 /\ pc = "halt" /\ exited

\* C8: at the end of the process every resource that was acquired has been
\* released exactly once, and nothing is ever released that was not acquired.
C8_ReleasedOnce ==
    /\ \A r \in Resources : rel[r] <= acq[r] /\ acq[r] <= 1
    /\ pc = "halt" => \A r \in Resources : rel[r] = acq[r]

\* C8 witness: a run has ended in which the slave handle was opened and
\* released, and the master handle could not be opened.
C8_Witness ==
    /\ pc = "halt" /\ exited
    /\ acq["slave"] = 1 /\ rel["slave"] = 1 /\ acq["master"] = 0

\* C9: no NVMe register is accessed before the first copy has completed, the
\* second copy is configured only after the burst has returned, the
\* comparator runs only after the second copy has completed, and the burst
\* never runs while the copy action is running.
C9_PhasesInOrder ==
    /\ (pc \in RtPcs \/ \E r \in NvmeWriteRegs : wr[r] > 0) => done["copy1"]
    /\ (pc \in {"copy2_start", "copy2_wait"} \/ actReg["CONFIG"] = "COPY_DH") => done["burst"]
    /\ done["burst"] => done["copy1"]
    /\ done["copy2"] => done["burst"]
    /\ (pc = "verify" \/ done["verify"]) => done["copy2"]
    /\ pc \in RtPcs => ~actBusy

\* C9 witness: the comparator has run after all three phases before it.
C9_Witness == done["verify"] /\ done["copy2"] /\ done["burst"] /\ done["copy1"]

\* The limits as they apply to the values given on the command line.
ReqInvalid ==
    \/ opt.drive \notin {ToU64(0), ToU64(1)}
    \/ opt.blocks = ToU64(0)
    \/ GreaterU(opt.blocks, max_blocks)
    \/ 0 # opt.offset[1] % 512
    \/ GreaterU(opt.offset, NVME_DRIVE_SIZE)
    \/ GreaterU(Add64(opt.offset, U32Val(TruncU32(opt.blocks)) * NVME_LB_SIZE), NVME_DRIVE_SIZE)

\* C10: a run whose offset is not a multiple of 512, whose block count is 0
\* or above the transfer ceiling, whose offset plus size is beyond the drive,
\* or whose drive is neither 0 nor 1 ends with a nonzero exit before a card
\* handle is opened, a buffer is allocated or a register is accessed.
C10_BoundaryRejection ==
    ReqInvalid =>
        /\ pc \in {"parse", "check_size", "halt"}
        /\ \A r \in Resources : acq[r] = 0
        /\ \A r \in NvmeWriteRegs : wr[r] = 0
        /\ pc = "halt" => (exited /\ exitCode # 0)

\* ------------------------------------------------------------------------
\* Further properties of nvme_read_test
\* ------------------------------------------------------------------------
\* C13: qin is never negative, whatever the TRACK reads return, also between
\* the decrement after the TRACK read and the increment after the submission
\* of the same iteration.
C13_QinNonNegative == qin >= 0

\* The positions of an iteration after its TRACK read.
AfterTrackPcs == {"rt_dptr", "rt_lba", "rt_cmd", "rt_adv"}

\* C14: an iteration of the main loop reads TRACK_REG exactly once; a TRACK
\* read, in the main loop or in the drain loop, lowers qin by one when the
\* value read is above zero and leaves it alone when the value is zero,
\* whatever the value; apart from that qin changes only by the +1 after a
\* submission (and is set to 0 on entry).
C14_OnePerNonzeroRead ==
    [][ /\ pc = "rt_track" =>
              /\ qin' = qin - (IF val32' > 0 THEN 1 ELSE 0)
              /\ wr'["TRACK_REG"] = wr["TRACK_REG"] + 1
        /\ (pc = "rt_drain" /\ pc' = "rt_drain") =>
              qin' = qin - (IF val32' > 0 THEN 1 ELSE 0)
        /\ pc = "rt_adv" => qin' = qin + 1
        /\ pc = "rt_entry" => qin' = 0
        /\ (pc \notin {"rt_track", "rt_adv", "rt_entry"} /\ ~(pc = "rt_drain" /\ pc' = "rt_drain"))
              => qin' = qin
        /\ wr'["TRACK_REG"] = n' + (IF pc' \in AfterTrackPcs THEN 1 ELSE 0) ]_vars

\* Reached: a drain poll that read 2 has lowered qin from 2 to 1, after a
\* burst of two commands whose iterations read TRACK once each.
C14_Witness ==
    pc = "rt_drain" /\ nmax = 2 /\ val32 = 2 /\ qin = 1 /\ wr["TRACK_REG"] = 2

\* The commands submitted to the drive's I/O queue and not yet completed.
HwOutstanding == Len(hwQueue[IoQueueOf(drive)])

\* C15: against hardware that starts idle and whose TRACK register is
\* nonzero only when a command completed since the previous TRACK read, qin
\* is never below the number of outstanding commands, at the loop test, in
\* the drain loop and everywhere else but between the COMMAND_REG write and
\* the qin++ that follows it; once nvme_read_test has returned no command is
\* outstanding in any queue, so the copy back to the host starts after
\* every read has completed.
C15_NoneOutstandingOnReturn ==
    /\ pc \in (RtPcs \ {"rt_entry", "rt_adv"}) => qin >= HwOutstanding
    /\ pc = "rt_adv" => qin + 1 >= HwOutstanding
    /\ done["burst"] => \A q \in QueueIds : hwQueue[q] = <<>>

\* Reached: the burst of the session has returned after ten submissions, the
\* last completion having been observed by a drain poll, and the copy back
\* is about to be configured.
C15_Witness ==
    /\ pc = "copy2_cfg" /\ done["burst"]
    /\ wr["COMMAND_REG"] = SessionCmds
    /\ val32 > 0
    /\ \A q \in QueueIds : hwQueue[q] = <<>>

\* C16: nvme_read_test returns when the hardware completes every command it
\* is given.  The drain loop can end only through nonzero TRACK reads, and
\* TRACK is nonzero only after a completion it has not yet reported; so for
\* the loop to end, whenever it is waiting (qin # 0) a command must still be
\* outstanding or a completion must still be unread.  In a state where
\* neither is the case every later TRACK read returns 0 and the loop never
\* ends.
C16_DrainCanFinish ==
    (pc = "rt_drain" /\ DrainCond(qin)) =>
        \/ hwDone > 0
        \/ \E q \in QueueIds : hwQueue[q] # <<>>

\* C17: the registers of a submission are written in the order DPTR_LOW,
\* LBA_LOW, COMMAND_REG: when COMMAND_REG is written, DPTR_LOW and LBA_LOW
\* have been written once more than COMMAND_REG and hold the data pointer and
\* the LBA of this command; LBA_LOW is written after DPTR_LOW; and qin is
\* incremented exactly once for each COMMAND_REG write, right after it.
C17_SubmitOrder ==
    [][ /\ wr'["COMMAND_REG"] # wr["COMMAND_REG"] =>
              /\ wr["DPTR_LOW"] = wr["COMMAND_REG"] + 1
              /\ wr["LBA_LOW"] = wr["COMMAND_REG"] + 1
              /\ nvmeReg["DPTR_LOW"] = dptr_low /\ nvmeReg["LBA_LOW"] = lba_low
              /\ wr'["DPTR_LOW"] = wr["DPTR_LOW"] /\ wr'["LBA_LOW"] = wr["LBA_LOW"]
              /\ qin' = qin /\ pc' = "rt_adv"
        /\ wr'["LBA_LOW"] # wr["LBA_LOW"] =>
              /\ wr["DPTR_LOW"] = wr["LBA_LOW"] + 1
              /\ wr["COMMAND_REG"] = wr["LBA_LOW"]
              /\ nvmeReg["DPTR_LOW"] = dptr_low
        /\ wr'["DPTR_LOW"] # wr["DPTR_LOW"] =>
              /\ wr["LBA_LOW"] = wr["DPTR_LOW"]
              /\ wr["COMMAND_REG"] = wr["DPTR_LOW"]
        /\ (pc = "rt_adv" /\ pc' # pc) => qin' = qin + 1
        /\ qin' > qin => (pc = "rt_adv" /\ qin' = qin + 1 /\ n' = n + 1)
        /\ wr'["COMMAND_REG"] = n' + (IF pc' = "rt_adv" THEN 1 ELSE 0) ]_vars

\* Reached: the third command has just been written, after its data pointer
\* and its LBA, and qin has not been incremented for it yet.
C17_Witness ==
    /\ pc = "rt_adv" /\ n = 2
    /\ wr["DPTR_LOW"] = 3 /\ wr["LBA_LOW"] = 3 /\ wr["COMMAND_REG"] = 3
    /\ nvmeReg["DPTR_LOW"] = dptr_low /\ nvmeReg["LBA_LOW"] = lba_low
    /\ lba_low # <<0, 0>>

\* k * b modulo 2^32 and k * 512 * b modulo 2^32 as limb pairs, for k * b
\* below 2^31 (512 * 128 is 2^16).
ExpectedLba(k, b) == <<(k * b) % LimbBase, ((k * b) \div LimbBase) % LimbBase>>
ExpectedDptr(k, b) == <<(((k * b) % 128) * 512) % LimbBase, ((k * b) \div 128) % LimbBase>>

\* C18: command number k of a burst (counted from 0) is submitted with
\* LBA_LOW = k * blocks and DPTR_LOW = k * 512 * blocks, both modulo 2^32,
\* the first command having LBA 0 and data pointer 0.
C18_SequentialAddressing ==
    /\ pc \in {"rt_for", "rt_status", "rt_track", "rt_dptr", "rt_lba", "rt_cmd"} =>
          /\ lba_low = ExpectedLba(n, blocks)
          /\ dptr_low = ExpectedDptr(n, blocks)
    /\ pc \in {"rt_cmd", "rt_adv"} =>
          /\ nvmeReg["LBA_LOW"] = ExpectedLba(n, blocks)
          /\ nvmeReg["DPTR_LOW"] = ExpectedDptr(n, blocks)
    /\ pc = "rt_cmd" => wr["COMMAND_REG"] = n

\* Reached: the last command of the long burst of 65536-block reads has been
\* written, with a data pointer that has wrapped past 2^32.
C18_Witness ==
    /\ pc = "rt_adv" /\ n = LongCmds - 1 /\ n >= 128
    /\ blocks = 256 * 256
    /\ nvmeReg["DPTR_LOW"] = <<0, ((n - 128) * 512) % LimbBase>>
    /\ nvmeReg["LBA_LOW"] = <<0, n>>

\* The STATUS bit and the queue selector the claim gives for a drive.
ClaimedFullBit(d) == IF d = 0 THEN 2 ELSE 8
ClaimedSelector(d) == IF d = 0 THEN 1 ELSE 3

\* C19: for drive 0 the backpressure loop waits on STATUS bit 1 (0x02) and
\* on nothing else, and the command word written has bits [3:0] = 0, bits
\* [5:4] = 1 and bits [15:8] = the action identifier; for drive 1 the bit is
\* bit 3 (0x08) and bits [5:4] are 3.  A STATUS read leaves the wait exactly
\* when that one bit is clear, whatever the bits of the other queues.
C19_SameQueueBitExact ==
    [][ /\ pc' # "rt_entry" =>
              /\ ssd_ioq_full' = ClaimedFullBit(drive')
              /\ cmd_reg' % 16 = 0
              /\ (cmd_reg' \div 16) % 4 = ClaimedSelector(drive')
              /\ (cmd_reg' \div 256) % 256 = ActionId
              /\ cmd_reg' < LimbBase
        /\ wr'["COMMAND_REG"] # wr["COMMAND_REG"] =>
              /\ nvmeReg'["COMMAND_REG"] = cmd_reg
              /\ lastStatus \in 0..15
              /\ BitAnd(lastStatus, ClaimedFullBit(drive)) = 0
        /\ pc = "rt_status" =>
              /\ val32' \in 0..15
              /\ pc' = (IF BitAnd(val32', ClaimedFullBit(drive)) # 0
                        THEN "rt_status" ELSE "rt_track") ]_vars

\* Reached: drive 1, the STATUS read before the submission showed the three
\* other queues full, and the command word written names queue 3.
C19_Witness ==
    /\ drive = 1 /\ pc = "rt_adv"
    /\ lastStatus = 7
    /\ nvmeReg["COMMAND_REG"] = 48 + 256 * ActionId
    /\ wr["COMMAND_REG"] = 2

PerRunRegs == {"DPTR_HIGH", "LBA_HIGH", "LBA_NUM"}

\* C20: DPTR_HIGH, LBA_HIGH and LBA_NUM are each written exactly once per
\* call of nvme_read_test, before the first STATUS read and before the first
\* submission, and no iteration of the main loop and no drain poll writes
\* them or changes their values.
C20_PerRunRegsOnce ==
    [][ /\ \A r \in PerRunRegs :
              /\ wr'[r] = (IF pc' = "rt_entry" THEN 0 ELSE 1)
              /\ pc # "rt_entry" => (wr'[r] = wr[r] /\ nvmeReg'[r] = nvmeReg[r])
        /\ pc = "rt_entry" =>
              /\ lastStatus = -1 /\ lastStatus' = -1
              /\ \A r \in SubmitRegs \cup {"TRACK_REG"} : wr[r] = 0 /\ wr'[r] = 0
              /\ nvmeReg'["DPTR_HIGH"] = DPTR_HIGH_VAL
              /\ nvmeReg'["LBA_HIGH"] = 0
              /\ nvmeReg'["LBA_NUM"] = blocks ]_vars

\* Reached: a burst of ten commands has returned after at least one drain
\* poll, with each per-run register written once and holding its value.
C20_Witness ==
    /\ pc = "returned" /\ nmax = SessionCmds /\ wr["COMMAND_REG"] = SessionCmds
    /\ val32 > 0
    /\ \A r \in PerRunRegs : wr[r] = 1
    /\ nvmeReg["DPTR_HIGH"] = DPTR_HIGH_VAL /\ nvmeReg["LBA_NUM"] = blocks

=============================================================================
